---- MODULE Spec2Model ----
(***************************************************************************)
(* A model of the Terminator C++ -> Python transpiler: the internal AST    *)
(* (terminator.py, section 1), the two rewrite rules (rules.py), the       *)
(* NodeVisitor / RuleApplier traversal (terminator.py, section 3), the     *)
(* PythonCodeGenerator (section 4) and the batch driver main/process_file  *)
(* (section 5).                                                            *)
(*                                                                         *)
(* A Python object is a record whose field "kind" is its class name; a     *)
(* Python list is a sequence; None is the record NoneVal.  A Literal's     *)
(* value keeps its Python type as a tag: <<"int", 0>>, <<"str", "a">>.     *)
(***************************************************************************)
EXTENDS Integers, Sequences, FiniteSets, TLC

VARIABLES
    node,          \* unit specifications: the object handed to the operation
    rules,         \* RuleApplier.rules: the ordered list of active rule names
    op,            \* unit specifications: the operation that produced result
    result,        \* unit specifications: what the operation returned
    files,         \* batch: the files main() iterates over, in glob order
    idx,           \* batch: number of files main() has finished
    pc,            \* batch: position inside process_file / convert
    internal_ast,  \* batch: the tree convert() is working on
    indent_level,  \* PythonCodeGenerator._indent_level of the shared generator
    patched,       \* hasattr(PythonCodeGenerator, 'visit_PythonForLoop')
    outputs        \* batch: what process_file printed/wrote per file

vars == <<node, rules, op, result, files, idx, pc, internal_ast,
          indent_level, patched, outputs>>

-----------------------------------------------------------------------------
(* Bounds of the model.                                                    *)

MaxChain == 3      \* right-hand operands of a '<<' chain
MaxBody == 2       \* statements in a loop body

-----------------------------------------------------------------------------
(* 1. Internal AST node definitions.                                       *)

NoneVal == [kind |-> "NoneType"]

TranslationUnit(body) == [kind |-> "TranslationUnit", body |-> body]

FunctionDecl(name, params, body, return_type) ==
    [kind |-> "FunctionDecl", name |-> name, params |-> params,
     body |-> body, return_type |-> return_type]

VarDecl(name, var_type, init) ==
    [kind |-> "VarDecl", name |-> name, var_type |-> var_type, init |-> init]

CallExpr(callee, args) == [kind |-> "CallExpr", callee |-> callee, args |-> args]

BinaryOp(o, left, right) ==
    [kind |-> "BinaryOp", op |-> o, left |-> left, right |-> right]

UnaryOp(o, operand) == [kind |-> "UnaryOp", op |-> o, operand |-> operand]

ForLoop(init, cond, inc, body) ==
    [kind |-> "ForLoop", init |-> init, cond |-> cond, inc |-> inc, body |-> body]

Identifier(name) == [kind |-> "Identifier", name |-> name]

Literal(value) == [kind |-> "Literal", value |-> value]

\* The node class ForLoopToRangeRule.visit creates for a matched loop.
PythonForLoop(target, iter, body) ==
    [kind |-> "PythonForLoop", target |-> target, iter |-> iter, body |-> body]

NodeKinds == {"TranslationUnit", "FunctionDecl", "VarDecl", "CallExpr", "BinaryOp",
              "UnaryOp", "ForLoop", "Identifier", "Literal", "PythonForLoop"}

\* isinstance(v, Node)
IsNode(v) == v.kind \in NodeKinds

IntLit(n) == Literal(<<"int", n>>)
StrLit(s) == Literal(<<"str", s>>)

-----------------------------------------------------------------------------
(* rules.py                                                                *)

\* Rule.visit: the base class returns the node.
Rule(n) == n

\* Mutant of ForLoopToRangeRule: the init literal is not compared with 0.
ForLoopToRangeRule_AnyInit(n) ==
    IF n.kind # "ForLoop" THEN n
    ELSE IF ~(n.init.kind = "VarDecl" /\ n.init.init.kind = "Literal") THEN n
    ELSE IF ~(n.cond.kind = "BinaryOp" /\ n.cond.op = "<"
              /\ n.cond.left.kind = "Identifier" /\ n.cond.left.name = n.init.name)
         THEN n
    ELSE IF ~(n.inc.kind = "UnaryOp" /\ n.inc.op = "++"
              /\ n.inc.operand.kind = "Identifier" /\ n.inc.operand.name = n.init.name)
         THEN n
    ELSE PythonForLoop(Identifier(n.init.name), n.cond.right, n.body)

\* Mutant of ForLoopToRangeRule: the loop bound is taken from the wrong side.
ForLoopToRangeRule_WrongBound(n) ==
    IF n.kind # "ForLoop" THEN n
    ELSE IF ~(n.init.kind = "VarDecl" /\ n.init.init.kind = "Literal"
              /\ n.init.init.value = <<"int", 0>>) THEN n
    ELSE IF ~(n.cond.kind = "BinaryOp" /\ n.cond.op = "<"
              /\ n.cond.left.kind = "Identifier" /\ n.cond.left.name = n.init.name)
         THEN n
    ELSE IF ~(n.inc.kind = "UnaryOp" /\ n.inc.op = "++"
              /\ n.inc.operand.kind = "Identifier" /\ n.inc.operand.name = n.init.name)
         THEN n
    ELSE PythonForLoop(Identifier(n.init.name), n.cond.left, n.body)

\* ForLoopToRangeRule.visit
ForLoopToRangeRule(n) ==
    IF n.kind # "ForLoop" THEN n
    ELSE IF ~(n.init.kind = "VarDecl" /\ n.init.init.kind = "Literal"
              /\ n.init.init.value = <<"int", 0>>) THEN n
    ELSE IF ~(n.cond.kind = "BinaryOp" /\ n.cond.op = "<"
              /\ n.cond.left.kind = "Identifier" /\ n.cond.left.name = n.init.name)
         THEN n
    ELSE IF ~(n.inc.kind = "UnaryOp" /\ n.inc.op = "++"
              /\ n.inc.operand.kind = "Identifier" /\ n.inc.operand.name = n.init.name)
         THEN n
    ELSE PythonForLoop(Identifier(n.init.name), n.cond.right, n.body)

RECURSIVE flatten_cout_chain_KeepEndl(_)
\* Mutant of _flatten_cout_chain: std::endl is not dropped.
flatten_cout_chain_KeepEndl(n) ==
    LET args == <<n.right>>
    IN  IF n.left.kind = "BinaryOp" /\ n.left.op = "<<"
        THEN flatten_cout_chain_KeepEndl(n.left) \o args
        ELSE args

RECURSIVE flatten_cout_chain(_)
\* StdCoutToPrintRule._flatten_cout_chain
flatten_cout_chain(n) ==
    LET args == IF n.right.kind = "Identifier" /\ n.right.name = "std::endl"
                THEN << >>
                ELSE <<n.right>>
    IN  IF n.left.kind = "BinaryOp" /\ n.left.op = "<<"
        THEN flatten_cout_chain(n.left) \o args
        ELSE args

\* StdCoutToPrintRule.visit
StdCoutToPrintRule(n) ==
    IF n.kind # "BinaryOp" \/ n.op # "<<" THEN n
    ELSE IF ~(n.left.kind = "Identifier" /\ n.left.name = "std::cout")
            /\ ~(n.left.kind = "BinaryOp" /\ n.left.op = "<<")
         THEN n
    ELSE CallExpr(Identifier("print"), flatten_cout_chain(n))

RuleNames == {"ForLoopToRangeRule", "StdCoutToPrintRule"}

\* rule.visit(node) for the rule instance named r
ApplyRule(r, n) ==
    IF r = "ForLoopToRangeRule" THEN ForLoopToRangeRule(n) ELSE StdCoutToPrintRule(n)


-----------------------------------------------------------------------------
(* 4. PythonCodeGenerator.                                                 *)
(*                                                                         *)
(* A visit returns [err, text, lvl]: whether an exception left the call,   *)
(* the text it returned, and self._indent_level when it ended.  The only   *)
(* exception the generator's own code can meet on a well-formed tree is    *)
(* Python's RecursionError, so every call carries `room`, the number of    *)
(* further Python frames the interpreter still allows below the caller.    *)

Ok(text, lvl) == [err |-> FALSE, text |-> text, lvl |-> lvl]
Raise(lvl) == [err |-> TRUE, text |-> "", lvl |-> lvl]

\* A Python str object, where a value may also be None.
Str(s) == [kind |-> "str", value |-> s]

\* bool(v) of a str or None
Truthy(v) == v.kind # "NoneType" /\ ~(v.kind = "str" /\ v.value = "")

RECURSIVE StrReplace(_, _, _)
\* str.replace(old, new): every non-overlapping occurrence, left to right
StrReplace(s, old, new) ==
    IF Len(s) < Len(old) THEN s
    ELSE IF SubSeq(s, 1, Len(old)) = old
         THEN new \o StrReplace(SubSeq(s, Len(old) + 1, Len(s)), old, new)
         ELSE SubSeq(s, 1, 1) \o StrReplace(SubSeq(s, 2, Len(s)), old, new)

RECURSIVE StrRepeat(_, _)
\* s * k
StrRepeat(s, k) == IF k <= 0 THEN "" ELSE s \o StrRepeat(s, k - 1)

RECURSIVE StrJoin(_, _)
\* sep.join(parts)
StrJoin(sep, parts) ==
    IF Len(parts) = 0 THEN ""
    ELSE IF Len(parts) = 1 THEN parts[1]
    ELSE parts[1] \o sep \o StrJoin(sep, Tail(parts))

\* the dict literal of _map_type
type_map ==
    ("int" :> "int") @@ ("float" :> "float") @@ ("double" :> "float")
    @@ ("bool" :> "bool") @@ ("std::string" :> "str") @@ ("string" :> "str")
    @@ ("void" :> "None")

\* PythonCodeGenerator._map_type
map_type(cpp_type) ==
    LET t == StrReplace(cpp_type, "const ", "")
    IN  IF t \in DOMAIN type_map THEN Str(type_map[t]) ELSE NoneVal

\* PythonCodeGenerator._indent
Indent(lvl) == StrRepeat("    ", lvl)

\* hasattr(stmt, 'body')
HasBody(n) == n.kind \in {"TranslationUnit", "FunctionDecl", "ForLoop", "PythonForLoop"}

RECURSIVE GenVisit(_, _, _)
RECURSIVE GenList(_, _, _, _, _)
RECURSIVE GenBody(_, _, _, _, _)
RECURSIVE GenBodyFlat(_, _, _, _, _)

\* "sep".join(self.visit(x) for x in items): the texts of items[i..], after acc,
\* visited in order; room is what each self.visit call may use.
GenList(items, i, acc, lvl, room) ==
    IF i > Len(items) THEN [err |-> FALSE, texts |-> acc, lvl |-> lvl]
    ELSE LET r == GenVisit(items[i], lvl, room)
         IN  IF r.err THEN [err |-> TRUE, texts |-> acc, lvl |-> r.lvl]
             ELSE GenList(items, i + 1, Append(acc, r.text), r.lvl, room)

\* for stmt in body: code += f"{self._indent()}{self.visit(stmt)}\n"
GenBody(body, i, code, lvl, room) ==
    IF i > Len(body) THEN Ok(code, lvl)
    ELSE IF room < 1 THEN Raise(lvl)
    ELSE LET r == GenVisit(body[i], lvl, room)
         IN  IF r.err THEN Raise(r.lvl)
             ELSE GenBody(body, i + 1, code \o Indent(lvl) \o r.text \o "\n", r.lvl, room)

\* the body loop of visit_PythonForLoop: a statement that has a 'body'
\* attribute contributes its sub-statements instead of itself
GenBodyFlat(body, i, code, lvl, room) ==
    IF i > Len(body) THEN Ok(code, lvl)
    ELSE IF IsNode(body[i]) /\ HasBody(body[i])
         THEN LET r == GenBody(body[i].body, 1, code, lvl, room)
              IN  IF r.err THEN r ELSE GenBodyFlat(body, i + 1, r.text, r.lvl, room)
         ELSE LET r == GenBody(<<body[i]>>, 1, code, lvl, room)
              IN  IF r.err THEN r ELSE GenBodyFlat(body, i + 1, r.text, r.lvl, room)

\* PythonCodeGenerator.visit_TranslationUnit
visit_TranslationUnit(n, lvl, room) ==
    LET kept == SelectSeq(n.body, LAMBDA c : c.kind # "Identifier")
    IN  IF room < 1 THEN Raise(lvl)
        ELSE LET r == GenList(kept, 1, << >>, lvl, room - 1)
             IN  IF r.err THEN Raise(r.lvl) ELSE Ok(StrJoin("\n\n", r.texts), r.lvl)

\* PythonCodeGenerator.visit_FunctionDecl
visit_FunctionDecl(n, lvl, room) ==
    IF room < 1 THEN Raise(lvl)
    ELSE
    LET ps == GenList(n.params, 1, << >>, lvl, room - 1)
        py_type == map_type(n.return_type)
        return_hint == IF Truthy(py_type) /\ py_type.value # "None"
                       THEN " -> " \o py_type.value ELSE ""
    IN  IF ps.err THEN Raise(ps.lvl)
        ELSE
        LET code == "def " \o n.name \o "(" \o StrJoin(", ", ps.texts) \o ")"
                    \o return_hint \o ":\n"
            in_lvl == ps.lvl + 1
            b == IF Len(n.body) = 0
                 THEN Ok(code \o Indent(in_lvl) \o "pass\n", in_lvl)
                 ELSE GenBody(n.body, 1, code, in_lvl, room)
        IN  IF b.err THEN b
            ELSE Ok(b.text \o (IF n.name = "main"
                               THEN "\n\nif __name__ == \"__main__\":\n    main()"
                               ELSE ""),
                    b.lvl - 1)

\* PythonCodeGenerator.visit_VarDecl
visit_VarDecl(n, lvl, room) ==
    IF room < 1 THEN Raise(lvl)
    ELSE
    LET py_type == map_type(n.var_type)
        type_hint == IF Truthy(py_type) THEN ": " \o py_type.value ELSE ""
    IN  IF IsNode(n.init)
        THEN LET r == GenVisit(n.init, lvl, room)
             IN  IF r.err THEN r
                 ELSE Ok(n.name \o type_hint \o " = " \o r.text, r.lvl)
        ELSE Ok(n.name \o type_hint \o " = None", lvl)

\* PythonCodeGenerator.visit_CallExpr
visit_CallExpr(n, lvl, room) ==
    LET c == GenVisit(n.callee, lvl, room)
    IN  IF c.err THEN c
        ELSE IF room < 1 THEN Raise(c.lvl)
        ELSE LET a == GenList(n.args, 1, << >>, c.lvl, room - 1)
             IN  IF a.err THEN Raise(a.lvl)
                 ELSE Ok(c.text \o "(" \o StrJoin(", ", a.texts) \o ")", a.lvl)

\* PythonCodeGenerator.visit_BinaryOp
visit_BinaryOp(n, lvl, room) ==
    LET l == GenVisit(n.left, lvl, room)
    IN  IF l.err THEN l
        ELSE LET r == GenVisit(n.right, l.lvl, room)
             IN  IF r.err THEN r
                 ELSE Ok("(" \o l.text \o " " \o n.op \o " " \o r.text \o ")", r.lvl)

\* PythonCodeGenerator.visit_UnaryOp
visit_UnaryOp(n, lvl, room) ==
    LET o == GenVisit(n.operand, lvl, room)
    IN  IF o.err THEN o
        ELSE IF n.op = "++" THEN Ok(o.text \o " += 1", o.lvl)
        ELSE IF n.op = "--" THEN Ok(o.text \o " -= 1", o.lvl)
        ELSE Ok(n.op \o o.text, o.lvl)

\* self.visit(x) if x else "# <what>"
GenOptional(x, what, lvl, room) ==
    IF IsNode(x) THEN GenVisit(x, lvl, room) ELSE Ok("# " \o what, lvl)

\* PythonCodeGenerator.visit_ForLoop
visit_ForLoop(n, lvl, room) ==
    LET i == GenOptional(n.init, "init", lvl, room)
    IN  IF i.err THEN i ELSE
    LET c == GenOptional(n.cond, "cond", i.lvl, room)
    IN  IF c.err THEN c ELSE
    LET u == GenOptional(n.inc, "inc", c.lvl, room)
    IN  IF u.err THEN u ELSE
    LET code == "# Original C++ for loop was not transformed\n"
                \o i.text \o "\n" \o "while " \o c.text \o ":\n"
        in_lvl == u.lvl + 1
        b == GenBody(n.body, 1, code, in_lvl, room)
    IN  IF b.err THEN b
        ELSE IF room < 1 THEN Raise(b.lvl)
        ELSE Ok(b.text \o Indent(b.lvl) \o u.text \o "\n", b.lvl - 1)

\* visit_PythonForLoop, the handler ForLoopToRangeRule.visit installs on
\* PythonCodeGenerator
visit_PythonForLoop(n, lvl, room) ==
    LET t == GenVisit(n.target, lvl, room)
    IN  IF t.err THEN t ELSE
    LET it == GenVisit(n.iter, t.lvl, room)
    IN  IF it.err THEN it ELSE
    LET code == "for " \o t.text \o " in range(" \o it.text \o "):\n"
        in_lvl == it.lvl + 1
        b == IF Len(n.body) = 0
             THEN (IF room < 1 THEN Raise(in_lvl)
                   ELSE Ok(code \o Indent(in_lvl) \o "pass\n", in_lvl))
             ELSE GenBodyFlat(n.body, 1, code, in_lvl, room)
    IN  IF b.err THEN b ELSE Ok(b.text, b.lvl - 1)

\* PythonCodeGenerator.visit_Identifier
visit_Identifier(n, lvl, room) == Ok(n.name, lvl)

\* PythonCodeGenerator.visit_Literal
visit_Literal(n, lvl, room) ==
    IF n.value[1] = "str" THEN Ok("\"" \o n.value[2] \o "\"", lvl)
    ELSE Ok(ToString(n.value[2]), lvl)

\* NodeVisitor.visit as PythonCodeGenerator inherits it: the visit frame and
\* the handler frame each take one of the `room` frames left.
GenVisit(n, lvl, room) ==
    IF room < 2 THEN Raise(lvl)
    ELSE IF ~IsNode(n) THEN Ok("None", lvl)
    ELSE CASE n.kind = "TranslationUnit" -> visit_TranslationUnit(n, lvl, room - 2)
           [] n.kind = "FunctionDecl" -> visit_FunctionDecl(n, lvl, room - 2)
           [] n.kind = "VarDecl" -> visit_VarDecl(n, lvl, room - 2)
           [] n.kind = "CallExpr" -> visit_CallExpr(n, lvl, room - 2)
           [] n.kind = "BinaryOp" -> visit_BinaryOp(n, lvl, room - 2)
           [] n.kind = "UnaryOp" -> visit_UnaryOp(n, lvl, room - 2)
           [] n.kind = "ForLoop" -> visit_ForLoop(n, lvl, room - 2)
           [] n.kind = "PythonForLoop" -> visit_PythonForLoop(n, lvl, room - 2)
           [] n.kind = "Identifier" -> visit_Identifier(n, lvl, room - 2)
           [] n.kind = "Literal" -> visit_Literal(n, lvl, room - 2)

\* PythonCodeGenerator.generate
generate(n, lvl, room) == IF room < 1 THEN Raise(lvl) ELSE GenVisit(n, lvl, room - 1)

-----------------------------------------------------------------------------
(* 3. NodeVisitor and RuleApplier.                                         *)
(*                                                                         *)
(* A traversal returns [node, log].  The log lists the calls in the order  *)
(* they are made: one "rule" event per rule.visit(node) call (with its     *)
(* argument and what it returned) and one "generic_visit" event per        *)
(* generic_visit(node) call, each with the path of the node from the root. *)
(* A path is a sequence of <<field, index>> steps, index 0 for a field     *)
(* that holds a Node and i for the i-th element of a list field.           *)

\* node.__dict__ in insertion order, limited to the fields that can hold a
\* Node or a list (the str fields fall through both isinstance tests)
FieldsOf(n) ==
    CASE n.kind = "TranslationUnit" -> <<"body">>
      [] n.kind = "FunctionDecl" -> <<"params", "body">>
      [] n.kind = "VarDecl" -> <<"init">>
      [] n.kind = "CallExpr" -> <<"callee", "args">>
      [] n.kind = "BinaryOp" -> <<"left", "right">>
      [] n.kind = "UnaryOp" -> <<"operand">>
      [] n.kind = "ForLoop" -> <<"init", "cond", "inc", "body">>
      [] n.kind = "PythonForLoop" -> <<"target", "iter", "body">>
      [] OTHER -> << >>

\* isinstance(value, list) for the value of field f
ListFields == {"body", "params", "args"}

RuleEvent(path, k, r, arg, ret) ==
    [ev |-> "rule", at |-> path, k |-> k, rule |-> r, arg |-> arg, ret |-> ret]

DescendEvent(path, arg) ==
    [ev |-> "generic_visit", at |-> path, k |-> 0, rule |-> "", arg |-> arg,
     ret |-> NoneVal]

RECURSIVE Visit(_, _, _, _, _)
RECURSIVE generic_visit(_, _, _, _, _)
RECURSIVE VisitFields(_, _, _, _, _, _, _)
RECURSIVE VisitItems(_, _, _, _, _, _, _)

\* for rule in self.rules: node = rule.visit(node)
RECURSIVE ApplyRules(_, _, _, _, _)
ApplyRules(rs, k, n, path, log) ==
    IF k > Len(rs) THEN [node |-> n, log |-> log]
    ELSE LET out == ApplyRule(rs[k], n)
         IN  ApplyRules(rs, k + 1, out, path, Append(log, RuleEvent(path, k, rs[k], n, out)))

\* for i, item in enumerate(value): value[i] = self.visit(item)
VisitItems(items, i, mode, rs, path, f, log) ==
    IF i > Len(items) THEN [items |-> items, log |-> log]
    ELSE LET r == Visit(items[i], mode, rs, Append(path, <<f, i>>), log)
         IN  VisitItems([items EXCEPT ![i] = r.node], i + 1, mode, rs, path, f, r.log)

\* for field, value in node.__dict__.items(): ...
VisitFields(n, fs, j, mode, rs, path, log) ==
    IF j > Len(fs) THEN [node |-> n, log |-> log]
    ELSE LET f == fs[j]
         IN  IF f \in ListFields
             THEN LET r == VisitItems(n[f], 1, mode, rs, path, f, log)
                  IN  VisitFields([n EXCEPT ![f] = r.items], fs, j + 1, mode, rs,
                                  path, r.log)
             ELSE IF IsNode(n[f])
             THEN LET r == Visit(n[f], mode, rs, Append(path, <<f, 0>>), log)
                  IN  VisitFields([n EXCEPT ![f] = r.node], fs, j + 1, mode, rs,
                                  path, r.log)
             ELSE VisitFields(n, fs, j + 1, mode, rs, path, log)

\* Mutant of generic_visit: the visited node is not returned.
generic_visit_NoReturn(n, mode, rs, path, log) ==
    [node |-> NoneVal,
     log |-> VisitFields(n, FieldsOf(n), 1, mode, rs, path,
                         Append(log, DescendEvent(path, n))).log]

\* NodeVisitor.generic_visit
generic_visit(n, mode, rs, path, log) ==
    VisitFields(n, FieldsOf(n), 1, mode, rs, path, Append(log, DescendEvent(path, n)))

\* Mutant of Visit: RuleApplier descends first and rewrites afterwards.
Visit_PostOrder(v, mode, rs, path, log) ==
    IF mode = "NodeVisitor"
    THEN IF ~IsNode(v) THEN [node |-> v, log |-> log]
         ELSE generic_visit(v, mode, rs, path, log)
    ELSE LET g == generic_visit(v, mode, rs, path, log)
         IN  ApplyRules(rs, 1, g.node, path, g.log)

\* self.visit(node): NodeVisitor.visit for mode "NodeVisitor" (no visit_<kind>
\* handler is defined, so getattr falls back to generic_visit), RuleApplier.visit
\* for mode "RuleApplier"
Visit(v, mode, rs, path, log) ==
    IF mode = "NodeVisitor"
    THEN IF ~IsNode(v) THEN [node |-> v, log |-> log]
         ELSE generic_visit(v, mode, rs, path, log)
    ELSE LET r == ApplyRules(rs, 1, v, path, log)
         IN  generic_visit(r.node, mode, rs, path, r.log)

-----------------------------------------------------------------------------
(* The trees the specifications draw their inputs from.                    *)

\* all sequences over S of length lo..hi
SeqsOf(S, lo, hi) == UNION {[1..k -> S] : k \in lo..hi}

RECURSIVE Chain(_, _)
\* the left-associated tree of  root << ops[1] << ... << ops[n]
Chain(root, ops) ==
    IF Len(ops) = 0 THEN root
    ELSE BinaryOp("<<", Chain(root, SubSeq(ops, 1, Len(ops) - 1)), ops[Len(ops)])

Cout == Identifier("std::cout")
Endl == Identifier("std::endl")

ChainOperands ==
    {StrLit("a"), Identifier("x"), Endl, IntLit(1),
     BinaryOp("<<", Identifier("x"), IntLit(1))}

ChainRoots ==
    {Cout, Identifier("x"), IntLit(1), BinaryOp("+", Identifier("x"), IntLit(1)),
     CallExpr(Identifier("f"), << >>)}

Chains == {Chain(r, ops) : r \in ChainRoots, ops \in SeqsOf(ChainOperands, 1, MaxChain)}

LoopInits ==
    {VarDecl("i", "int", IntLit(0)), VarDecl("i", "const int", IntLit(0)),
     VarDecl("i", "int", IntLit(1)), VarDecl("i", "int", StrLit("0")),
     VarDecl("i", "int", NoneVal), VarDecl("i", "int", Identifier("x")),
     BinaryOp("=", Identifier("i"), IntLit(0)), NoneVal}

LoopConds ==
    {BinaryOp("<", Identifier("i"), Identifier("N")),
     BinaryOp("<", Identifier("i"), IntLit(1)),
     BinaryOp("<=", Identifier("i"), Identifier("N")),
     BinaryOp("<", Identifier("j"), Identifier("N")),
     BinaryOp("<", IntLit(0), Identifier("N")),
     Identifier("i")}

LoopIncs ==
    {UnaryOp("++", Identifier("i")), UnaryOp("--", Identifier("i")),
     UnaryOp("++", Identifier("j")), UnaryOp("++", IntLit(0)),
     BinaryOp("+=", Identifier("i"), IntLit(1))}

\* the parser wraps a loop's compound statement in one placeholder Identifier
BodyStmts ==
    {VarDecl("y", "int", IntLit(1)),
     Chain(Cout, <<StrLit("a"), Endl>>),
     Identifier("UNHANDLED<COMPOUND_STMT>")}

Bodies == SeqsOf(BodyStmts, 0, MaxBody)

ForLoops ==
    {ForLoop(i, c, u, b) : i \in LoopInits, c \in LoopConds, u \in LoopIncs, b \in Bodies}

TypeStrings ==
    {"int", "float", "double", "bool", "std::string", "string", "void",
     "const int", "const double", "const std::string", "const void",
     "unsigned int", "long", "const char *", "auto", "std::vector<int>",
     "const const int", "int const ", "boconst ol", "const", "const ", ""}

VarDecls ==
    {VarDecl(nm, t, i) : nm \in {"x"}, t \in TypeStrings, i \in {NoneVal, IntLit(1)}}

RuleInputs == Chains \cup ForLoops \cup VarDecls \cup ChainOperands

-----------------------------------------------------------------------------
(* SpecRule: one rule, then the generator, on one node.  A fresh           *)
(* PythonCodeGenerator (indent level 0) renders what the rule returned, or *)
(* the node itself when no rule ran.                                       *)

\* Python frames available to one rule or generator call made on its own:
\* the interpreter's default recursion limit, far above what RuleInputs needs
AmpleRoom == 1000

InitRule ==
    /\ node \in RuleInputs
    /\ rules = << >>
    /\ op = "none"
    /\ result = [node |-> NoneVal, gen |-> Ok("", 0)]
    /\ files = << >> /\ idx = 0 /\ pc = "unit" /\ internal_ast = NoneVal
    /\ indent_level = 0 /\ patched = FALSE /\ outputs = << >>

\* rule.visit(node) for one rule instance
RuleVisit(r) ==
    /\ op = "none"
    /\ op' = "rule"
    /\ rules' = <<r>>
    /\ result' = [result EXCEPT !.node = ApplyRule(r, node)]
    /\ patched' = (patched \/ ApplyRule(r, node).kind = "PythonForLoop")
    /\ UNCHANGED <<node, files, idx, pc, internal_ast, indent_level, outputs>>

\* PythonCodeGenerator().generate(...) of what the rule returned
GenerateRewritten ==
    /\ op = "rule"
    /\ op' = "generated"
    /\ LET g == generate(result.node, indent_level, AmpleRoom)
       IN  /\ result' = [result EXCEPT !.gen = g]
           /\ indent_level' = g.lvl
    /\ UNCHANGED <<node, rules, files, idx, pc, internal_ast, patched, outputs>>

\* PythonCodeGenerator().generate(node) with no rule active
GenerateDirect ==
    /\ op = "none"
    /\ op' = "generated_direct"
    /\ LET g == generate(node, indent_level, AmpleRoom)
       IN  /\ result' = [node |-> node, gen |-> g]
           /\ indent_level' = g.lvl
    /\ UNCHANGED <<node, rules, files, idx, pc, internal_ast, patched, outputs>>

NextRule ==
    \/ \E r \in RuleNames : RuleVisit(r)
    \/ GenerateRewritten
    \/ GenerateDirect

SpecRule == InitRule /\ [][NextRule]_vars

-----------------------------------------------------------------------------
(* Claims about the two rules and the type map (SpecRule).                 *)

IsShift(n) == n.kind = "BinaryOp" /\ n.op = "<<"

RECURSIVE SpineRoot(_)
\* where the left spine of nested '<<' nodes ends
SpineRoot(n) == IF IsShift(n) THEN SpineRoot(n.left) ELSE n

RECURSIVE SpineOperands(_)
\* the right-hand operands along the left spine, in source order
SpineOperands(n) == IF IsShift(n) THEN Append(SpineOperands(n.left), n.right) ELSE << >>

AfterRule(r) == op \in {"rule", "generated"} /\ rules = <<r>>

\* the text a fresh generator gives for an expression
ExprText(e) == generate(e, 0, AmpleRoom).text

\* C1: StdCoutToPrintRule returns the node itself for every '<<' node whose
\* left spine does not end in Identifier('std::cout').
C1_NonCoutChainUnmatched ==
    (AfterRule("StdCoutToPrintRule") /\ IsShift(node) /\ SpineRoot(node) # Cout)
        => result.node = node

\* C2: for a '<<' chain rooted at std::cout, StdCoutToPrintRule returns
\* CallExpr(Identifier('print'), args), args being the right-hand operands in
\* source order without the std::endl operands; it renders as print(<args>),
\* and std::cout << "a" << x << std::endl renders as print("a", x).
C2_CoutChainFlattened ==
    (AfterRule("StdCoutToPrintRule") /\ IsShift(node) /\ SpineRoot(node) = Cout)
        => LET args == SelectSeq(SpineOperands(node), LAMBDA a : a # Endl)
           IN  /\ result.node = CallExpr(Identifier("print"), args)
               /\ op = "generated" =>
                    /\ ~result.gen.err
                    /\ result.gen.text =
                         "print(" \o StrJoin(", ", [k \in 1..Len(args) |-> ExprText(args[k])])
                         \o ")"
                    /\ node = Chain(Cout, <<StrLit("a"), Identifier("x"), Endl>>)
                         => result.gen.text = "print(\"a\", x)"

C2_Witness ==
    /\ op = "generated" /\ rules = <<"StdCoutToPrintRule">>
    /\ node = Chain(Cout, <<StrLit("a"), Identifier("x"), Endl>>)
    /\ result.node = CallExpr(Identifier("print"), <<StrLit("a"), Identifier("x")>>)
    /\ result.gen.text = "print(\"a\", x)"

\* the counted-loop pattern: for (T i = 0; i < B; i++)
IsCounted(n) ==
    /\ n.kind = "ForLoop"
    /\ n.init.kind = "VarDecl"
    /\ n.init.init = IntLit(0)
    /\ n.cond.kind = "BinaryOp" /\ n.cond.op = "<"
    /\ n.cond.left = Identifier(n.init.name)
    /\ n.inc = UnaryOp("++", Identifier(n.init.name))

\* C3: for a ForLoop of the counted-loop pattern ForLoopToRangeRule returns a
\* PythonForLoop whose target is the loop variable, whose iter is the bound B
\* and whose body is the loop's body; init, cond and inc are gone.
C3_CountedLoopRewritten ==
    (AfterRule("ForLoopToRangeRule") /\ IsCounted(node))
        => result.node =
             PythonForLoop(Identifier(node.init.name), node.cond.right, node.body)

C3_Witness ==
    /\ op = "rule" /\ rules = <<"ForLoopToRangeRule">>
    /\ IsCounted(node) /\ Len(node.body) >= 2
    /\ node.body[1] # node.body[2]
    /\ result.node.kind = "PythonForLoop" /\ result.node.body = node.body

NotTransformed == "# Original C++ for loop was not transformed\n"

\* s begins with prefix
StartsWith(s, prefix) ==
    Len(s) >= Len(prefix) /\ SubSeq(s, 1, Len(prefix)) = prefix

\* C4: ForLoopToRangeRule returns every node outside the counted-loop pattern
\* unchanged; such a ForLoop is rendered in the while form, the 'not
\* transformed' comment first.
C4_NonMatchingUnchanged ==
    (AfterRule("ForLoopToRangeRule") /\ ~IsCounted(node))
        => /\ result.node = node
           /\ (op = "generated" /\ node.kind = "ForLoop") =>
                /\ ~result.gen.err
                /\ StartsWith(result.gen.text,
                       NotTransformed
                       \o (IF IsNode(node.init) THEN ExprText(node.init) ELSE "# init")
                       \o "\nwhile " \o ExprText(node.cond) \o ":\n")
                /\ node = ForLoop(VarDecl("i", "int", IntLit(1)),
                                  BinaryOp("<", Identifier("i"), Identifier("N")),
                                  UnaryOp("++", Identifier("i")), << >>)
                     => result.gen.text =
                          NotTransformed \o "i: int = 1\nwhile (i < N):\n    i += 1\n"

C4_Witness ==
    /\ op = "generated" /\ rules = <<"ForLoopToRangeRule">>
    /\ node.kind = "ForLoop" /\ node.init = VarDecl("i", "int", IntLit(1))
    /\ node.cond = BinaryOp("<", Identifier("i"), Identifier("N"))
    /\ node.inc = UnaryOp("++", Identifier("i"))
    /\ Len(node.body) > 0
    /\ result.node = node
    /\ StartsWith(result.gen.text, NotTransformed \o "i: int = 1\nwhile (i < N):\n")

\* the declared type without a leading 'const ' qualifier
StripLeadingConst(t) ==
    IF StartsWith(t, "const ") THEN SubSeq(t, 7, Len(t)) ELSE t

\* C8: a rendered VarDecl carries a type annotation exactly when its type,
\* a leading 'const ' stripped, is a key of the type table, and the annotation
\* is then the table's entry.
C8_AnnotationIffLeadingConstStripped ==
    (op = "generated_direct" /\ node.kind = "VarDecl")
        => LET t == StripLeadingConst(node.var_type)
               hint == IF t \in DOMAIN type_map THEN ": " \o type_map[t] ELSE ""
           IN  result.gen.text =
                 node.name \o hint \o " = "
                 \o (IF IsNode(node.init) THEN ExprText(node.init) ELSE "None")

-----------------------------------------------------------------------------
(* 5. Terminator.convert, process_file and main: a batch run.              *)

MaxFiles == 2        \* files in one batch
StackHeadroom == 14  \* Python frames left to convert() before RecursionError

RECURSIVE Deep(_)
\* 1 + 1 + ... + 1 with k additions: k BinaryOp nodes down the left spine
Deep(k) == IF k = 0 THEN IntLit(1) ELSE BinaryOp("+", Deep(k - 1), IntLit(1))

CountedLoop(body) ==
    ForLoop(VarDecl("i", "int", IntLit(0)),
            BinaryOp("<", Identifier("i"), Identifier("N")),
            UnaryOp("++", Identifier("i")), body)

DownLoop(body) ==
    ForLoop(VarDecl("i", "int", Identifier("N")),
            BinaryOp(">", Identifier("i"), IntLit(0)),
            UnaryOp("--", Identifier("i")), body)

Unit1(name, stmt) == TranslationUnit(<<FunctionDecl(name, << >>, <<stmt>>, "int")>>)

\* what the parser returns for the source files of the batch
BatchTrees ==
    {TranslationUnit(<< >>),
     TranslationUnit(<<Identifier("UNHANDLED<NAMESPACE>"),
                       FunctionDecl("g", <<VarDecl("n", "const int", NoneVal)>>,
                                    <<VarDecl("y", "int", IntLit(1))>>, "void")>>),
     Unit1("main", Chain(Cout, <<StrLit("a"), Endl>>)),
     Unit1("f", CountedLoop(<<Chain(Cout, <<Identifier("i")>>)>>)),
     Unit1("f", DownLoop(<<Identifier("UNHANDLED<COMPOUND_STMT>")>>)),
     Unit1("f", Deep(4)),
     Unit1("f", Deep(5)),
     Unit1("f", CountedLoop(<<Deep(3)>>)),
     Unit1("f", DownLoop(<<Deep(3)>>))}

\* a source file: whether open/read/parse succeed, and the tree parse returns
SourceFiles ==
    {[parses |-> TRUE, ast |-> t] : t \in BatchTrees}
    \cup {[parses |-> FALSE, ast |-> NoneVal]}

\* args.rules: the default is every rule, in the rules module's order
RuleLists == {<<"ForLoopToRangeRule", "StdCoutToPrintRule">>, <<"StdCoutToPrintRule">>, << >>}

RECURSIVE SpineLen(_)
\* number of '<<' nodes down the left spine: the depth _flatten_cout_chain
\* recurses to
SpineLen(n) == IF IsShift(n) THEN 1 + SpineLen(n.left) ELSE 0

\* Python frames in use, counted from RuleApplier.visit(root) = 1, when the
\* call of a log event is at its deepest: visit and generic_visit alternate
\* down a path, rule.visit sits on visit, and _flatten_cout_chain recurses
\* once per '<<' node of the spine
FramesAt(e) ==
    2 * Len(e.at) + 2
    + (IF e.ev = "rule" /\ e.rule = "StdCoutToPrintRule" /\ e.ret # e.arg
       THEN SpineLen(e.arg) ELSE 0)

RECURSIVE FirstOverflowFrom(_, _, _)
FirstOverflowFrom(log, j, room) ==
    IF j > Len(log) THEN 0
    ELSE IF FramesAt(log[j]) > room THEN j
    ELSE FirstOverflowFrom(log, j + 1, room)

\* the first call of the log that does not fit in room frames, 0 if all fit
FirstOverflow(log, room) == FirstOverflowFrom(log, 1, room)

Converted(text, lvl, p) == [status |-> "ok", text |-> text, lvl |-> lvl, patched |-> p]
Failed(lvl, p) == [status |-> "error", text |-> "", lvl |-> lvl, patched |-> p]

\* Terminator.convert after the parse: r is what rule_applier.visit(internal_ast)
\* did, then code_generator.generate(modified_ast) on a generator whose
\* _indent_level is lvl
ConvertTree(r, lvl, p) ==
    LET o == FirstOverflow(r.log, StackHeadroom)
        ran == IF o = 0 THEN r.log ELSE SubSeq(r.log, 1, o)
        p2 == p \/ \E j \in 1..Len(ran) :
                      ran[j].ev = "rule" /\ ran[j].ret.kind = "PythonForLoop"
    IN  IF o # 0 THEN Failed(lvl, p2)
        ELSE LET g == generate(r.node, lvl, StackHeadroom)
             IN  IF g.err THEN Failed(g.lvl, p2) ELSE Converted(g.text, g.lvl, p2)

\* the try block of process_file around Terminator.convert for one file, on a
\* generator whose _indent_level is lvl: "ok" with the Python text, or "error"
\* when an exception reached the except clause; lvl and patched are the
\* generator's indent level and the class patch afterwards
ConvertFile(f, rs, lvl, p) ==
    IF ~f.parses THEN Failed(lvl, p)
    ELSE CHOOSE c \in {ConvertTree(r, lvl, p) :
                         r \in {Visit(f.ast, "RuleApplier", rs, << >>, << >>)}} : TRUE

Init ==
    /\ files \in SeqsOf(SourceFiles, 1, MaxFiles)
    /\ rules \in RuleLists
    /\ idx = 0
    /\ pc = "main"
    /\ internal_ast = NoneVal
    /\ indent_level = 0
    /\ patched = FALSE
    /\ outputs = << >>
    /\ node = NoneVal /\ op = "none" /\ result = NoneVal

\* Mutant of process_file: an exception is not caught and ends main().
process_file_Uncaught ==
    /\ pc = "main"
    /\ idx < Len(files)
    /\ \E c \in {ConvertFile(files[idx + 1], rules, indent_level, patched)} :
           /\ indent_level' = c.lvl
           /\ patched' = c.patched
           /\ IF c.status = "error"
              THEN /\ pc' = "done"
                   /\ UNCHANGED <<outputs, idx>>
              ELSE /\ outputs' = Append(outputs, [status |-> c.status, text |-> c.text])
                   /\ idx' = idx + 1
                   /\ pc' = pc
    /\ internal_ast' = (IF files[idx + 1].parses THEN files[idx + 1].ast ELSE NoneVal)
    /\ UNCHANGED <<files, rules, node, op, result>>

\* one iteration of main()'s loop: process_file(file, args, terminator) with
\* the one shared Terminator
process_file ==
    /\ pc = "main"
    /\ idx < Len(files)
    /\ \E c \in {ConvertFile(files[idx + 1], rules, indent_level, patched)} :
           /\ indent_level' = c.lvl
           /\ patched' = c.patched
           /\ outputs' = Append(outputs, [status |-> c.status, text |-> c.text])
    /\ internal_ast' = (IF files[idx + 1].parses THEN files[idx + 1].ast ELSE NoneVal)
    /\ idx' = idx + 1
    /\ UNCHANGED <<files, rules, pc, node, op, result>>

\* main() returns when the loop has run over every file
main_return ==
    /\ pc = "main"
    /\ idx = Len(files)
    /\ pc' = "done"
    /\ UNCHANGED <<files, rules, idx, internal_ast, indent_level, patched, outputs,
                   node, op, result>>

Next == process_file \/ main_return

Spec == Init /\ [][Next]_vars

-----------------------------------------------------------------------------
(* Claims about a batch run (Spec).                                        *)

\* what a fresh Terminator (indent level 0, class not yet patched) makes of
\* one file with the batch's rule list
Standalone(f) == ConvertFile(f, rules, 0, FALSE)

\* C5: the text produced for a file of a batch is what the file's source and
\* the rule list alone determine, whatever was converted before it.
C5_OutputIndependentOfEarlierFiles ==
    \A k \in 1..Len(outputs) :
        outputs[k].status = "ok" => outputs[k].text = Standalone(files[k]).text

\* C6: a file whose conversion fails gets its error reported, the loop goes on
\* with the next file, and every other file still gets its output: each file
\* ends as it would alone, and main() ends only after the last file.
C6_FileIsolation ==
    /\ Len(outputs) = idx
    /\ pc = "done" => Len(outputs) = Len(files)
    /\ \A k \in 1..Len(outputs) : outputs[k].status = Standalone(files[k]).status

C6_Witness ==
    /\ pc = "done" /\ Len(files) = 2
    /\ files[1].parses /\ outputs[1].status = "error"
    /\ outputs[2].status = "ok" /\ Len(outputs[2].text) > 0

\* C9: the indent level is back at its starting value when a block renderer
\* ends, by return or by exception; so the shared generator, which starts at
\* 0, is at 0 after every generate call.
C9_IndentRestored == indent_level = 0

-----------------------------------------------------------------------------
(* SpecVisit: NodeVisitor.visit and RuleApplier.visit on one tree.         *)

MaxRules == 2      \* rule instances in RuleApplier.rules

VisitStmts ==
    {VarDecl("y", "int", IntLit(1)),
     Chain(Cout, <<StrLit("a"), Endl>>),
     Chain(Identifier("x"), <<IntLit(1), StrLit("a")>>),
     CallExpr(Identifier("f"), <<Chain(Cout, <<Identifier("x")>>), IntLit(1)>>)}

VisitBodies == SeqsOf(VisitStmts, 0, MaxBody)

VisitLoops == {CountedLoop(b) : b \in VisitBodies} \cup {DownLoop(b) : b \in VisitBodies}

VisitFuncs ==
    {FunctionDecl("f", <<VarDecl("p", "int", NoneVal)>>, <<st>>, "int") :
        st \in VisitLoops \cup VisitStmts}

VisitUnits == {TranslationUnit(<<Identifier("UNHANDLED<NAMESPACE>"), f>>) : f \in VisitFuncs}

\* values that are no Node: None, a str, an int
Scalars == {NoneVal, Str("abc"), [kind |-> "int", value |-> 7]}

VisitInputs == VisitStmts \cup VisitLoops \cup VisitFuncs \cup VisitUnits \cup Scalars

InitVisit ==
    /\ node \in VisitInputs
    /\ rules \in SeqsOf(RuleNames, 0, MaxRules)
    /\ op = "none"
    /\ result = [node |-> NoneVal, log |-> << >>]
    /\ files = << >> /\ idx = 0 /\ pc = "unit" /\ internal_ast = NoneVal
    /\ indent_level = 0 /\ patched = FALSE /\ outputs = << >>

\* NodeVisitor().visit(node)
NodeVisitorVisit ==
    /\ op = "none"
    /\ op' = "NodeVisitor"
    /\ result' = Visit(node, "NodeVisitor", << >>, << >>, << >>)
    /\ UNCHANGED <<node, rules, files, idx, pc, internal_ast, indent_level, patched,
                   outputs>>

\* RuleApplier(rules).visit(node), as Terminator.convert calls it on a tree
RuleApplierVisit ==
    /\ op = "none"
    /\ IsNode(node)
    /\ op' = "RuleApplier"
    /\ \E r \in {Visit(node, "RuleApplier", rules, << >>, << >>)} :
           /\ result' = r
           /\ patched' = (patched \/ \E j \in 1..Len(r.log) :
                                        r.log[j].ret.kind = "PythonForLoop")
    /\ UNCHANGED <<node, rules, files, idx, pc, internal_ast, indent_level, outputs>>

NextVisit == NodeVisitorVisit \/ RuleApplierVisit

SpecVisit == InitVisit /\ [][NextVisit]_vars

-----------------------------------------------------------------------------
(* Claims about the traversal (SpecVisit).                                 *)

\* C7: NodeVisitor.visit without handlers returns a tree equal to its input,
\* field by field and element by element, and a non-Node value as it is.
C7_TraversalRoundTrip == op = "NodeVisitor" => result.node = node

C7_Witness ==
    /\ op = "NodeVisitor"
    /\ node.kind = "TranslationUnit" /\ Len(node.body) = 2
    /\ node.body[2].body[1].kind = "ForLoop"
    /\ Len(node.body[2].body[1].body) = 2
    /\ node.body[2].body[1].body[1] # node.body[2].body[1].body[2]
    /\ result.node = node
    /\ Len(result.log) > 10

RECURSIVE NodeAt(_, _)
\* the node a path leads to
NodeAt(t, path) ==
    IF Len(path) = 0 THEN t
    ELSE NodeAt(IF path[1][2] = 0 THEN t[path[1][1]] ELSE t[path[1][1]][path[1][2]],
                Tail(path))

\* the child slots generic_visit visits, as path steps
Slots(n) ==
    {<<FieldsOf(n)[j], 0>> : j \in {i \in 1..Len(FieldsOf(n)) :
                                     /\ FieldsOf(n)[i] \notin ListFields
                                     /\ IsNode(n[FieldsOf(n)[i]])}}
    \cup UNION {{<<FieldsOf(n)[j], i>> : i \in 1..Len(n[FieldsOf(n)[j]])} :
                  j \in {i \in 1..Len(FieldsOf(n)) : FieldsOf(n)[i] \in ListFields}}

\* position of field f among the fields generic_visit iterates over
FieldPos(n, f) == CHOOSE j \in 1..Len(FieldsOf(n)) : FieldsOf(n)[j] = f

\* slot s comes before slot t in generic_visit's iteration over n
SlotBefore(n, s, t) ==
    \/ FieldPos(n, s[1]) < FieldPos(n, t[1])
    \/ s[1] = t[1] /\ s[2] < t[2]

\* the calls of the log made on the node at path p, as log positions
CallsAt(log, p) == {j \in 1..Len(log) : log[j].at = p}

\* the position of the generic_visit call on the node at path p
DescentAt(log, p) == CHOOSE j \in CallsAt(log, p) : log[j].ev = "generic_visit"

\* what the traversal did at one reached path p: the rules ran once each, in list
\* order and chained, on the node found in the parent's slot; generic_visit then
\* took the last rule's result; the children came after it, in slot order
RewriteBeforeDescend(log, rs, root, p) ==
    LET calls == CallsAt(log, p)
        first == CHOOSE j \in calls : \A i \in calls : j <= i
        d == first + Len(rs)
        parent == SubSeq(p, 1, Len(p) - 1)
        found == IF Len(p) = 0 THEN root
                 ELSE NodeAt(log[DescentAt(log, parent)].arg, <<p[Len(p)]>>)
    IN  /\ calls = first..d
        /\ \A k \in 1..Len(rs) :
              /\ log[first + k - 1].ev = "rule"
              /\ log[first + k - 1].k = k
              /\ log[first + k - 1].rule = rs[k]
              /\ log[first + k - 1].arg = (IF k = 1 THEN found ELSE log[first + k - 2].ret)
        /\ log[d].ev = "generic_visit"
        /\ log[d].arg = (IF Len(rs) = 0 THEN found ELSE log[d - 1].ret)
        /\ Len(p) > 0 => DescentAt(log, parent) < first
        /\ {log[j].at : j \in {i \in 1..Len(log) :
                                 /\ Len(log[i].at) = Len(p) + 1
                                 /\ SubSeq(log[i].at, 1, Len(p)) = p}}
             = {Append(p, s) : s \in Slots(log[d].arg)}
        /\ \A s, t \in Slots(log[d].arg) :
              SlotBefore(log[d].arg, s, t)
                  => \A i \in CallsAt(log, Append(p, s)), j \in CallsAt(log, Append(p, t)) :
                        i < j

\* what the traversal left at path p of the returned tree: the node generic_visit
\* was called on, its own fields as they were and its list fields as long as
\* they were
OverwrittenInPlace(log, tree, p) ==
    LET d == log[DescentAt(log, p)].arg
        n == NodeAt(tree, p)
        own == {FieldsOf(d)[j] : j \in 1..Len(FieldsOf(d))}
    IN  /\ DOMAIN n = DOMAIN d
        /\ \A f \in DOMAIN d \ own : n[f] = d[f]
        /\ \A f \in own :
              IF f \in ListFields THEN Len(n[f]) = Len(d[f])
              ELSE IsNode(d[f]) \/ n[f] = d[f]

\* C10: RuleApplier.visit applies, at every node it reaches, each rule of the
\* list once and in list order, each to the previous one's result, before it
\* descends; it descends into the resulting node, and every child is replaced
\* in place by its own visit result, list fields keeping length and order.
C10_RewriteBeforeDescend ==
    op = "RuleApplier" =>
        /\ Len(result.log) > 0
        /\ \A p \in {result.log[j].at : j \in 1..Len(result.log)} :
              /\ RewriteBeforeDescend(result.log, rules, node, p)
              /\ OverwrittenInPlace(result.log, result.node, p)

C10_Witness ==
    /\ op = "RuleApplier"
    /\ rules = <<"ForLoopToRangeRule", "StdCoutToPrintRule">>
    /\ node.kind = "TranslationUnit"
    /\ node.body[2].body[1] =
         CountedLoop(<<Chain(Cout, <<StrLit("a"), Endl>>), VarDecl("y", "int", IntLit(1))>>)
    /\ result.node.body[2].body[1] =
         PythonForLoop(Identifier("i"), Identifier("N"),
                       <<CallExpr(Identifier("print"), <<StrLit("a")>>),
                         VarDecl("y", "int", IntLit(1))>>)

-----------------------------------------------------------------------------
(* SpecRender: Terminator.convert after the parse, on trees whose loops    *)
(* sit inside other blocks: RuleApplier.visit, then generate on a fresh    *)
(* PythonCodeGenerator.                                                    *)

RenderCall == CallExpr(Identifier("f"), <<Identifier("j")>>)

\* loops whose bodies are plain statements
InnerLoops ==
    {CountedLoop(b) : b \in SeqsOf({RenderCall}, 0, MaxBody)}
    \cup {DownLoop(b) : b \in SeqsOf({RenderCall}, 0, MaxBody)}

\* loops whose bodies hold plain statements and loops
RenderLoops ==
    {CountedLoop(b) : b \in SeqsOf({RenderCall} \cup InnerLoops, 0, MaxBody)}
    \cup {DownLoop(b) : b \in SeqsOf({RenderCall} \cup InnerLoops, 0, MaxBody)}

\* a loop as the tree's root, and as the one statement of a function body
RenderInputs ==
    RenderLoops \cup {FunctionDecl("f", << >>, <<l>>, "int") : l \in RenderLoops}

InitRender ==
    /\ node \in RenderInputs
    /\ rules \in RuleLists
    /\ op = "none"
    /\ result = [node |-> NoneVal, gen |-> Ok("", 0)]
    /\ files = << >> /\ idx = 0 /\ pc = "unit" /\ internal_ast = NoneVal
    /\ indent_level = 0 /\ patched = FALSE /\ outputs = << >>

\* modified_ast = self.rule_applier.visit(internal_ast)
ApplyRulesToTree ==
    /\ op = "none"
    /\ op' = "rewritten"
    /\ \E r \in {Visit(node, "RuleApplier", rules, << >>, << >>)} :
          /\ result' = [result EXCEPT !.node = r.node]
          /\ patched' = (patched \/ \E j \in 1..Len(r.log) :
                                       /\ r.log[j].ev = "rule"
                                       /\ r.log[j].ret.kind = "PythonForLoop")
    /\ UNCHANGED <<node, rules, files, idx, pc, internal_ast, indent_level, outputs>>

\* python_code = self.code_generator.generate(modified_ast)
GenerateTree ==
    /\ op = "rewritten"
    /\ op' = "rendered"
    /\ \E g \in {generate(result.node, indent_level, AmpleRoom)} :
          /\ result' = [result EXCEPT !.gen = g]
          /\ indent_level' = g.lvl
    /\ UNCHANGED <<node, rules, files, idx, pc, internal_ast, patched, outputs>>

NextRender == ApplyRulesToTree \/ GenerateTree

SpecRender == InitRender /\ [][NextRender]_vars

-----------------------------------------------------------------------------
(* Claims about rendered blocks (SpecRender).                              *)

\* the positions of the line ends of s
LineEnds(s) == {i \in 1..Len(s) : SubSeq(s, i, i) = "\n"}

\* the line of s that ends at the line end at position i
LineEndingAt(s, i) ==
    LET before == {q \in LineEnds(s) : q < i}
        prev == IF before = {} THEN 0
                ELSE CHOOSE p \in before : \A q \in before : q <= p
    IN  IF prev + 1 > i - 1 THEN "" ELSE SubSeq(s, prev + 1, i - 1)

\* text.split("\n") of a text that ends with a line end
SplitLines(s) ==
    LET ends == LineEnds(s)
    IN  [k \in 1..Cardinality(ends) |->
            LineEndingAt(s, CHOOSE i \in ends : Cardinality({q \in ends : q < i}) = k - 1)]

\* the lines of a text, blank lines left out
TextLines(s) == SelectSeq(SplitLines(s \o "\n"), LAMBDA l : l # "")

\* the statements a block node holds
Stmts(n) == IF n.kind \in {"FunctionDecl", "ForLoop", "PythonForLoop"} THEN n.body ELSE << >>

RECURSIVE HasLoopKind(_, _)
\* a node of kind k is n itself or a statement somewhere below n
HasLoopKind(n, k) ==
    n.kind = k \/ \E j \in 1..Len(Stmts(n)) : HasLoopKind(Stmts(n)[j], k)

RECURSIVE BlockLines(_, _)
RECURSIVE BodyLines(_, _, _)

\* the lines of the statements body[i..], each statement once and in order, in
\* a block at depth d
BodyLines(body, i, d) ==
    IF i > Len(body) THEN << >>
    ELSE BlockLines(body[i], d) \o BodyLines(body, i + 1, d)

\* the lines a statement s stands for at indent depth d: a header at depth d and
\* the block's statements at depth d + 1, or the one line of a plain statement
BlockLines(s, d) ==
    CASE s.kind = "FunctionDecl" ->
            <<Indent(d) \o "def " \o s.name \o "() -> int:">>
            \o (IF Len(s.body) = 0 THEN <<Indent(d + 1) \o "pass">>
                ELSE BodyLines(s.body, 1, d + 1))
      [] s.kind = "PythonForLoop" ->
            <<Indent(d) \o "for " \o ExprText(s.target) \o " in range("
                        \o ExprText(s.iter) \o "):">>
            \o (IF Len(s.body) = 0 THEN <<Indent(d + 1) \o "pass">>
                ELSE BodyLines(s.body, 1, d + 1))
      [] s.kind = "ForLoop" ->
            <<Indent(d) \o "# Original C++ for loop was not transformed",
              Indent(d) \o ExprText(s.init),
              Indent(d) \o "while " \o ExprText(s.cond) \o ":">>
            \o BodyLines(s.body, 1, d + 1)
            \o <<Indent(d + 1) \o ExprText(s.inc)>>
      [] OTHER -> <<Indent(d) \o ExprText(s)>>

\* C11: a bounded-iteration node renders as 'for <var> in range(<bound>):' and
\* then every statement of its body once, in order, one level deeper than the
\* header ('pass' for an empty body); a body statement that itself has a body
\* (a nested loop) is rendered whole, header included.  Stated on trees whose
\* loops are all bounded-iteration nodes.
C11_BoundedIterationRendersBody ==
    (/\ op = "rendered"
     /\ HasLoopKind(result.node, "PythonForLoop")
     /\ ~HasLoopKind(result.node, "ForLoop"))
        => /\ ~result.gen.err
           /\ TextLines(result.gen.text) = BlockLines(result.node, 0)

\* a fallback ForLoop is a statement of some block of n (a FunctionDecl body
\* or another loop's body)
ForLoopInsideBlock(n) ==
    \E j \in 1..Len(Stmts(n)) : HasLoopKind(Stmts(n)[j], "ForLoop")

\* C12: a ForLoop no rule rewrote, rendered as a statement of a block at depth
\* d, has its comment line, its init statement and its 'while <cond>:' header
\* at depth d, and its body statements, then the increment, at depth d + 1.
\* Stated on trees whose loops are all fallback ForLoops.
C12_FallbackLoopIndentedInBlock ==
    (/\ op = "rendered"
     /\ ~HasLoopKind(result.node, "PythonForLoop")
     /\ ForLoopInsideBlock(result.node))
        => /\ ~result.gen.err
           /\ TextLines(result.gen.text) = BlockLines(result.node, 0)

=============================================================================
